---------------------------- MODULE Spec2Model ----------------------------
(***************************************************************************)
(* Deliveries & transport accounting: the spreadsheet ingestion pipeline.  *)
(*                                                                         *)
(*   RecomputeService     (services/recomputeService.js)                   *)
(*   ExcelImportService   (services/excelImportService.js)                 *)
(*   conflict resolution  (routes/import.js, PUT /conflicts/:id/resolve)   *)
(*   QueueService         (services/queueService.js, import worker)        *)
(*                                                                         *)
(* The persisted store (deliveries, import_batches, import_conflicts,      *)
(* audit_logs) is the shared state.  An asynchronous method is a process   *)
(* whose position (pc) names the database call it is about to make: the    *)
(* code between two awaits runs without interleaving, so one action is one *)
(* database call together with the synchronous code that follows it.       *)
(*                                                                         *)
(* Numbers are exact decimals held as integers in thousandths (1.5 is      *)
(* 1500); a product of two of them is in millionths.  toFixed(2) is taken  *)
(* on the exact decimal value (binary floating-point representation error  *)
(* is not modelled).                                                       *)
(***************************************************************************)
EXTENDS Integers, Sequences, FiniteSets, TLC

VARIABLES
    deliveries,     \* table deliveries: row id = index
    batches,        \* table import_batches: row id = index
    conflicts,      \* table import_conflicts: row id = index
    auditLogs,      \* table audit_logs: the record_id of each row, in order
    rc,             \* one direct call of recomputeDependentFields
    runs,           \* the calls of importData, in the order they started
    faults,         \* storage failures raised so far
    isInitialized,  \* QueueService.isInitialized
    jobs,           \* the jobs of the excel-import queue, in the order added
    response,       \* the last answer of PUT /conflicts/:id/resolve
    calc,           \* one call of calculateFields on an object: argument, result
    range,          \* one call of recomputeDateRange or recomputeBySupplier
    service,        \* QueueService: redis, queues, workers, schedulers
    deletion,       \* DELETE /api/deliveries/:id: the last answer, the rows marked
    cancel          \* POST /jobs/:jobId/cancel: the request made of an import

vars == <<deliveries, batches, conflicts, auditLogs, rc, runs, faults,
          isInitialized, jobs, response, calc, range, service, deletion, cancel>>

\* what an import or a recomputation leaves alone
others == <<isInitialized, jobs, response, calc, range, service, deletion,
            cancel>>

-----------------------------------------------------------------------------
(* JavaScript values of the numeric fields *)

Null      == <<"null">>
Undefined == <<"undefined">>
NaN       == <<"NaN">>
Num(v)    == <<"num", v>>

IsNum(x) == Len(x) = 2

\* ToNumber: null -> 0, undefined -> NaN
ToNumber(x) ==
    IF IsNum(x) THEN x
    ELSE IF x = Null THEN Num(0)
    ELSE NaN

\* !x for a numeric field
Falsy(x) == x = Undefined \/ x = Null \/ x = NaN \/ x = Num(0)

Abs(n) == IF n < 0 THEN -n ELSE n

\* the integer nearest to n / q, a tie going away from zero
RoundDiv(n, q) ==
    LET m == (2 * Abs(n) + q) \div (2 * q)
    IN  IF n < 0 THEN -m ELSE m

\* a product cut off after two decimals instead of rounded
MulTruncated2(a, b) ==
    LET x == ToNumber(a)
        y == ToNumber(b)
    IN  IF IsNum(x) /\ IsNum(y)
        THEN Num(10 * ((x[2] * y[2]) \div 10000))
        ELSE NaN

\* parseFloat((a * b).toFixed(2))
MulToFixed2(a, b) ==
    LET x == ToNumber(a)
        y == ToNumber(b)
    IN  IF IsNum(x) /\ IsNum(y)
        THEN Num(10 * RoundDiv(x[2] * y[2], 10000))
        ELSE NaN

\* parseFloat((a - b).toFixed(2))
SubToFixed2(a, b) ==
    LET x == ToNumber(a)
        y == ToNumber(b)
    IN  IF IsNum(x) /\ IsNum(y)
        THEN Num(10 * RoundDiv(x[2] - y[2], 10))
        ELSE NaN

\* parseFloat((a + b).toFixed(2))
AddToFixed2(a, b) ==
    LET x == ToNumber(a)
        y == ToNumber(b)
    IN  IF IsNum(x) /\ IsNum(y)
        THEN Num(10 * RoundDiv(x[2] + y[2], 10))
        ELSE NaN

-----------------------------------------------------------------------------
(* RecomputeService.calculateFields *)

\* Formula 1: gross_value = volume * unit_price
Formula1(delivery) ==
    IF delivery.volume # Null /\ delivery.unit_price # Null
    THEN MulToFixed2(delivery.volume, delivery.unit_price)
    ELSE Undefined

\* Formula 2: net_value = gross_value - discount
Formula2(delivery, gross) ==
    IF gross # Undefined /\ delivery.discount # Null
    THEN SubToFixed2(gross, delivery.discount)
    ELSE IF delivery.gross_value # Null /\ delivery.discount # Null
    THEN SubToFixed2(delivery.gross_value, delivery.discount)
    ELSE Undefined

\* Formula 3: gross_value from net_value and discount, when !calculated.gross_value
Formula3(delivery, gross) ==
    IF delivery.net_value # Null /\ delivery.discount # Null /\ Falsy(gross)
    THEN AddToFixed2(delivery.net_value, delivery.discount)
    ELSE gross

\* Formula 4: net_value from gross_value and discount, when !calculated.net_value
Formula4(delivery, net) ==
    IF delivery.gross_value # Null /\ delivery.discount # Null /\ Falsy(net)
    THEN SubToFixed2(delivery.gross_value, delivery.discount)
    ELSE net

\* the object returned: a key that was never assigned is Undefined
CalculateFields(delivery) ==
    LET g1 == Formula1(delivery)
        n2 == Formula2(delivery, g1)
    IN  [gross_value |-> Formula3(delivery, g1),
         net_value   |-> Formula4(delivery, n2)]

\* .update({...updatedFields}): only the keys present are written
MergeFields(delivery, fields) ==
    [delivery EXCEPT
        !.gross_value = IF fields.gross_value = Undefined THEN @ ELSE fields.gross_value,
        !.net_value   = IF fields.net_value = Undefined THEN @ ELSE fields.net_value]

-----------------------------------------------------------------------------
(* Bounds *)

\* storage failures a behaviour may contain
MaxFaults == 1

\* direct calls of recomputeDependentFields a behaviour may contain
MaxRecomputes == 2

\* data rows of a sheet
MaxRows == 2

\* 1-based row of the header in a sheet
MaxHeaderRow == 2

-----------------------------------------------------------------------------
(* Storage *)

\* a database call may be rejected (connection lost, lock timeout, ...)
CanFail == faults < MaxFaults

DbError == "SQLITE_ERROR"

\* before any request was answered; id is the :id of the request an answer
\* belongs to
NoResponse == [status |-> 0, error |-> "", id |-> 0]

\* resolved_by of a conflict nobody resolved
NoUser == "none"

\* a deliveries row; batch is the import batch that inserted it (0: none),
\* kept by the model only: the table has no such column
DeliveryRow(voucher, rowIndex, batch, volume, unit_price, gross_value, discount, net_value) ==
    [company_voucher_no |-> voucher,
     original_row_index |-> rowIndex,
     batch              |-> batch,
     volume             |-> volume,
     unit_price         |-> unit_price,
     gross_value        |-> gross_value,
     discount           |-> discount,
     net_value          |-> net_value]

\* calculateFields was not called
NoCalc == [called |-> FALSE,
           delivery |-> DeliveryRow(Null, 0, 0, Null, Null, Null, Null, Null),
           fields |-> CalculateFields(
                         DeliveryRow(Null, 0, 0, Null, Null, Null, Null, Null))]

\* calculateFields(delivery) is called on the object calc holds
Calculate ==
    /\ ~calc.called
    /\ calc' = [calc EXCEPT !.called = TRUE, !.fields = CalculateFields(calc.delivery)]
    /\ UNCHANGED <<deliveries, batches, conflicts, auditLogs, rc, runs, faults,
                   isInitialized, jobs, response, range, service, deletion,
                   cancel>>

\* no call of recomputeDateRange / recomputeBySupplier was made
NoRange == [pc |-> "idle", kind |-> "", ids |-> << >>, k |-> 0, updatedCount |-> 0,
            fields |-> CalculateFields(
                          DeliveryRow(Null, 0, 0, Null, Null, Null, Null, Null)),
            error |-> ""]

\* the QueueService constructor: redis null, no queue, worker or scheduler;
\* cleanup is the outcome of the latest call of cleanup()
ServiceNew == [redis |-> "null", queues |-> "none", workers |-> "none",
               schedulers |-> "none", cleanup |-> "none"]

\* no DELETE request was answered, no row carries a deleted_at
NoDeletion == [status |-> 0, id |-> 0, deleted |-> {}]

\* no cancel request was made: run is the importData call of the job, row
\* the data row it was handling when the request arrived
NoCancel == [run |-> 0, row |-> 0, status |-> 0]

-----------------------------------------------------------------------------
(* RecomputeService.recomputeDependentFields, called directly *)

RcIdle == [pc |-> "idle", id |-> 0, fields |-> CalculateFields(
              DeliveryRow(Null, 0, 0, Null, Null, Null, Null, Null)), error |-> ""]

RcThrow(msg) == [rc EXCEPT !.pc = "threw", !.error = msg]

\* recomputeDependentFields(deliveryId) is called
StartRecompute(id) ==
    /\ rc.pc \in {"idle", "done", "threw"}
    /\ Len(auditLogs) < MaxRecomputes
    /\ rc' = [RcIdle EXCEPT !.pc = "read", !.id = id]
    /\ UNCHANGED <<deliveries, batches, conflicts, auditLogs, runs, faults, others>>

\* db('deliveries').where('id', deliveryId).first(), the not-found check
\* and calculateFields
RecomputeRead ==
    /\ rc.pc = "read"
    /\ \/ /\ CanFail
          /\ faults' = faults + 1
          /\ rc' = RcThrow(DbError)
       \/ /\ faults' = faults
          /\ rc' = IF rc.id \in DOMAIN deliveries
                   THEN [rc EXCEPT !.pc = "update",
                                   !.fields = CalculateFields(deliveries[rc.id])]
                   ELSE RcThrow("Delivery not found")
    /\ UNCHANGED <<deliveries, batches, conflicts, auditLogs, runs, others>>

\* db('deliveries').where('id', deliveryId).update({...updatedFields, updated_at})
RecomputeUpdate ==
    /\ rc.pc = "update"
    /\ \/ /\ CanFail
          /\ faults' = faults + 1
          /\ rc' = RcThrow(DbError)
          /\ UNCHANGED deliveries
       \/ /\ faults' = faults
          /\ deliveries' = [deliveries EXCEPT ![rc.id] = MergeFields(@, rc.fields)]
          /\ rc' = [rc EXCEPT !.pc = "audit"]
    /\ UNCHANGED <<batches, conflicts, auditLogs, runs, others>>

\* db('audit_logs').insert(...) and the return
RecomputeAudit ==
    /\ rc.pc = "audit"
    /\ \/ /\ CanFail
          /\ faults' = faults + 1
          /\ rc' = RcThrow(DbError)
          /\ UNCHANGED auditLogs
       \/ /\ faults' = faults
          /\ auditLogs' = Append(auditLogs, rc.id)
          /\ rc' = [rc EXCEPT !.pc = "done"]
    /\ UNCHANGED <<deliveries, batches, conflicts, runs, others>>

-----------------------------------------------------------------------------
(* RecomputeService.recomputeDateRange / recomputeBySupplier *)

\* the loop goes on with the next selected record, or returns updatedCount
RangeAdvance(st) ==
    [st EXCEPT !.k = @ + 1,
               !.pc = IF st.k + 1 > Len(st.ids) THEN "done" ELSE "read"]

\* a record's failure that leaves the loop
RangePropagate(st, msg) == [st EXCEPT !.pc = "threw", !.error = msg]

\* the catch block inside the loop: the record's error is logged and the
\* loop goes on
RangeSkip(st, msg) == RangeAdvance([st EXCEPT !.error = msg])

\* recomputeDateRange(fromDate, toDate) or recomputeBySupplier(supplierId)
\* is called; ids are the rows its filter matches, in id order
StartRange(kind, ids) ==
    /\ range.pc = "idle"
    /\ range' = [NoRange EXCEPT !.pc = "select", !.kind = kind, !.ids = ids]
    /\ UNCHANGED <<deliveries, batches, conflicts, auditLogs, rc, runs, faults,
                   isInitialized, jobs, response, calc, service, deletion, cancel>>

\* db('deliveries').whereBetween(...) / .where('supplier_id', ...) with
\* .select('id'): a rejected query goes to the outer catch block, which
\* rethrows
RangeSelect ==
    /\ range.pc = "select"
    /\ \/ /\ CanFail
          /\ faults' = faults + 1
          /\ range' = [range EXCEPT !.pc = "threw", !.error = DbError]
       \/ /\ faults' = faults
          /\ range' = RangeAdvance(range)
    /\ UNCHANGED <<deliveries, batches, conflicts, auditLogs, rc, runs,
                   isInitialized, jobs, response, calc, service, deletion, cancel>>

\* recomputeDependentFields(delivery.id): the read and calculateFields
RangeRead ==
    /\ range.pc = "read"
    /\ \/ /\ CanFail
          /\ faults' = faults + 1
          /\ range' = RangeSkip(range, DbError)
       \/ /\ faults' = faults
          /\ range' = IF range.ids[range.k] \in DOMAIN deliveries
                      THEN [range EXCEPT !.pc = "update",
                              !.fields = CalculateFields(deliveries[range.ids[range.k]])]
                      ELSE RangeSkip(range, "Delivery not found")
    /\ UNCHANGED <<deliveries, batches, conflicts, auditLogs, rc, runs,
                   isInitialized, jobs, response, calc, service, deletion, cancel>>

\* recomputeDependentFields(delivery.id): the update
RangeUpdate ==
    /\ range.pc = "update"
    /\ \/ /\ CanFail
          /\ faults' = faults + 1
          /\ range' = RangeSkip(range, DbError)
          /\ UNCHANGED deliveries
       \/ /\ faults' = faults
          /\ deliveries' = [deliveries EXCEPT ![range.ids[range.k]] =
                               MergeFields(@, range.fields)]
          /\ range' = [range EXCEPT !.pc = "audit"]
    /\ UNCHANGED <<batches, conflicts, auditLogs, rc, runs,
                   isInitialized, jobs, response, calc, service, deletion, cancel>>

\* recomputeDependentFields(delivery.id): the audit_logs insert and the
\* return, then updatedCount++
RangeAudit ==
    /\ range.pc = "audit"
    /\ \/ /\ CanFail
          /\ faults' = faults + 1
          /\ range' = RangeSkip(range, DbError)
          /\ UNCHANGED auditLogs
       \/ /\ faults' = faults
          /\ auditLogs' = Append(auditLogs, range.ids[range.k])
          /\ range' = RangeAdvance([range EXCEPT !.updatedCount = @ + 1])
    /\ UNCHANGED <<deliveries, batches, conflicts, rc, runs,
                   isInitialized, jobs, response, calc, service, deletion, cancel>>

-----------------------------------------------------------------------------
(* ExcelImportService: cells, mapping, row mapping *)

Str(s) == <<"str", s>>

\* cells of a data row as sheet_to_json(worksheet, {header: 1}) gives them;
\* a blank cell is a hole of the row array: undefined
DateCells    == {Str("2024-01-01"), Str("n/a"), Undefined}
VoucherCells == {Str("V1"), Undefined}
DataRows     == {<<d, v>> : d \in DateCells, v \in VoucherCells}

\* new Date(value) is a valid date
IsValidDate(value) == value = Str("2024-01-01")

Ok(value)  == [ok |-> TRUE, value |-> value, message |-> ""]
Throw(msg) == [ok |-> FALSE, value |-> Undefined, message |-> msg]

\* new Date(value).toISOString().split('T')[0]
NormalizeDate(value) ==
    IF IsValidDate(value) THEN Ok(value) ELSE Throw("Invalid time value")

\* parseFloat(value.replace(/[^\d.-]/g, ''))
NormalizeNumber(value) ==
    IF value = Undefined THEN Throw("Cannot read properties of undefined (reading 'replace')")
    ELSE IF value[1] # "str" THEN Throw("value.replace is not a function")
    ELSE IF value = Str("V1") THEN Ok(Num(1000))
    ELSE IF value = Str("2024-01-01") THEN Ok(Num(2024000))
    ELSE Ok(NaN)

\* value.trim()
NormalizeText(value) ==
    IF value = Undefined THEN Throw("Cannot read properties of undefined (reading 'trim')")
    ELSE IF value[1] # "str" THEN Throw("value.trim is not a function")
    ELSE Ok(value)

ApplyTransform(value, transform) ==
    CASE transform = "iso_date" -> NormalizeDate(value)
      [] transform = "numeric"  -> NormalizeNumber(value)
      [] transform = "currency" -> NormalizeNumber(value)
      [] transform = "trim"     -> NormalizeText(value)
      [] OTHER                  -> Ok(value)

\* a confirmed mapping of a two-column sheet (date, voucher).  Without
\* transforms it is what analyzeSheet produces: its columns carry
\* transform_rule, so columnMapping.transform is undefined
Mapping(withTransform, headerRowIndex) ==
    [sheetName      |-> "Sheet1",
     headerRowIndex |-> headerRowIndex,
     columns        |-> <<
        [suggested_field |-> "date", required |-> TRUE,
         transform |-> IF withTransform THEN "iso_date" ELSE "undefined"],
        [suggested_field |-> "company_voucher_no", required |-> FALSE,
         transform |-> IF withTransform THEN "trim" ELSE "undefined"] >>]

\* the columns that are mapped to a field
MappedColumns(mapping) ==
    {c \in DOMAIN mapping.columns : mapping.columns[c].suggested_field # "unknown"}

\* mapRowData: the forEach stops at the first column whose transform
\* throws; otherwise a later column of the same field overwrites
MapRowData(row, mapping) ==
    LET t == [c \in MappedColumns(mapping) |->
                 ApplyTransform(row[c], mapping.columns[c].transform)]
        bad == {c \in DOMAIN t : ~t[c].ok}
        fields == {mapping.columns[c].suggested_field : c \in DOMAIN t}
        last(f) == CHOOSE c \in DOMAIN t :
                      /\ mapping.columns[c].suggested_field = f
                      /\ \A e \in DOMAIN t :
                            mapping.columns[e].suggested_field = f => e <= c
    IN  IF bad # {}
        THEN Throw(t[CHOOSE c \in bad : \A e \in bad : c <= e].message)
        ELSE Ok([f \in fields |-> t[last(f)].value])

\* data[field]
Field(data, f) == IF f \in DOMAIN data THEN data[f] ELSE Undefined

\* validateRequiredFields
ValidateRequiredFields(data, mapping) ==
    \A c \in DOMAIN mapping.columns :
        mapping.columns[c].required =>
            Field(data, mapping.columns[c].suggested_field)
                \notin {Null, Undefined, Str("")}

\* !data.company_voucher_no
NoVoucherGiven(data) ==
    LET v == Field(data, "company_voucher_no")
    IN  v \in {Undefined, Null, Str(""), NaN, Num(0)}

\* isDuplicate, given the rows of deliveries
\* a duplicate check that finds nothing
NeverDuplicate(data, rows) == FALSE

IsDuplicate(data, rows) ==
    IF NoVoucherGiven(data) THEN FALSE
    ELSE \E id \in DOMAIN rows :
            rows[id].company_voucher_no = Field(data, "company_voucher_no")

\* rowIndex = headerRowIndex + i + 2, with headerRowIndex = mapping.headerRowIndex - 1
\* and i the 0-based position among the data rows
ExcelRowNumber(mapping, i) == (mapping.headerRowIndex - 1) + i + 2

-----------------------------------------------------------------------------
(* ExcelImportService.importData / processDataRows *)

\* run.i is the 1-based position of the current data row (i + 1)
NewRun(sheet, withTransform, headerRowIndex, readable) ==
    [pc       |-> "create",
     sheet    |-> sheet,
     mapping  |-> Mapping(withTransform, headerRowIndex),
     readable |-> readable,
     batchId  |-> 0,
     i        |-> 1,
     results  |-> [total |-> 0, imported |-> 0, conflicts |-> 0, errors |-> 0],
     mapped   |-> << >>,
     reason   |-> "",
     deliveryId |-> 0,
     fields   |-> [gross_value |-> Undefined, net_value |-> Undefined],
     error    |-> ""]

Finished(run) == run.pc \in {"done", "threw"}

RowIndex(run) == ExcelRowNumber(run.mapping, run.i - 1)

\* a conflict row stored as already resolved
ConflictRowResolved(batchId, rowIndex, reason, details, originalData) ==
    [batch_id      |-> batchId,
     delivery_row  |-> rowIndex,
     reason        |-> reason,
     details       |-> details,
     original_data |-> originalData,
     status        |-> "resolved",
     resolved_by   |-> NoUser,
     resolved_at   |-> 0]

ConflictRow(batchId, rowIndex, reason, details, originalData) ==
    [batch_id      |-> batchId,
     delivery_row  |-> rowIndex,
     reason        |-> reason,
     details       |-> details,
     original_data |-> originalData,
     status        |-> "pending",
     resolved_by   |-> NoUser,
     resolved_at   |-> 0]

\* a row's error that no catch block of the loop takes
RowErrorEscapes(run, msg) == [run EXCEPT !.pc = "threw", !.error = msg]

\* the row's error is caught by the catch block of the loop
ToCatch(run, msg) == [run EXCEPT !.pc = "catch", !.error = msg]

\* the error leaves processDataRows and importData rethrows it
Rethrow(run, msg) == [run EXCEPT !.pc = "threw", !.error = msg]

\* results.total++ and the loop's i++
NextRowCounted(run) ==
    [run EXCEPT !.pc = "row", !.i = @ + 1, !.results.total = @ + 1]

\* continue: the loop's i++ alone
NextRowContinue(run) == [run EXCEPT !.pc = "row", !.i = @ + 1]

\* importData(filePath, mapping, userId) is called
StartImport(sheet, withTransform, headerRowIndex, readable) ==
    /\ runs' = Append(runs, NewRun(sheet, withTransform, headerRowIndex, readable))
    /\ UNCHANGED <<deliveries, batches, conflicts, auditLogs, rc, faults, others>>

\* createImportBatch
CreateImportBatch(r) ==
    /\ runs[r].pc = "create"
    /\ \/ /\ CanFail
          /\ faults' = faults + 1
          /\ runs' = [runs EXCEPT ![r] = Rethrow(@, DbError)]
          /\ UNCHANGED batches
       \/ /\ faults' = faults
          /\ batches' = Append(batches,
                [status |-> "processing", total_rows |-> Null, imported_rows |-> Null,
                 conflict_rows |-> Null, error_message |-> Null, statusWrites |-> 0])
          /\ runs' = [runs EXCEPT ![r].pc = "read", ![r].batchId = Len(batches) + 1]
    /\ UNCHANGED <<deliveries, conflicts, auditLogs, rc, others>>

\* XLSX.readFile, sheet_to_json and the slice of the data rows
ReadWorkbook(r) ==
    /\ runs[r].pc = "read"
    /\ runs' = [runs EXCEPT ![r] =
                  IF @.readable THEN [@ EXCEPT !.pc = "row"]
                  ELSE Rethrow(@, "File corrupted")]
    /\ UNCHANGED <<deliveries, batches, conflicts, auditLogs, rc, faults, others>>

\* loop test, mapRowData and validateRequiredFields
BeginRow(r) ==
    LET run == runs[r]
        m   == MapRowData(run.sheet[run.i], run.mapping)
    IN  /\ run.pc = "row"
        /\ runs' = [runs EXCEPT ![r] =
              IF run.i > Len(run.sheet) THEN [run EXCEPT !.pc = "finish"]
              ELSE IF ~m.ok THEN ToCatch(run, m.message)
              ELSE IF ~ValidateRequiredFields(m.value, run.mapping)
                   THEN [run EXCEPT !.pc = "conflict", !.mapped = m.value,
                                    !.reason = "missing_required"]
              ELSE [run EXCEPT !.pc = "dup", !.mapped = m.value]]
        /\ UNCHANGED <<deliveries, batches, conflicts, auditLogs, rc, faults, others>>

ConflictDetails(reason) ==
    IF reason = "missing_required" THEN "Required fields missing"
    ELSE "Duplicate voucher number"

\* recordConflict inside the try block, then results.conflicts++ and continue
RecordRowConflict(r) ==
    LET run == runs[r]
    IN  /\ run.pc = "conflict"
        /\ \/ /\ CanFail
              /\ faults' = faults + 1
              /\ runs' = [runs EXCEPT ![r] = ToCatch(run, DbError)]
              /\ UNCHANGED conflicts
           \/ /\ faults' = faults
              /\ conflicts' = Append(conflicts,
                    ConflictRow(run.batchId, RowIndex(run), run.reason,
                                ConflictDetails(run.reason), <<"mapped", run.mapped>>))
              /\ runs' = [runs EXCEPT ![r] =
                    NextRowContinue([run EXCEPT !.results.conflicts = @ + 1])]
        /\ UNCHANGED <<deliveries, batches, auditLogs, rc, others>>

\* isDuplicate
CheckDuplicate(r) ==
    LET run == runs[r]
    IN  /\ run.pc = "dup"
        /\ \/ /\ ~NoVoucherGiven(run.mapped)
              /\ CanFail
              /\ faults' = faults + 1
              /\ runs' = [runs EXCEPT ![r] = ToCatch(run, DbError)]
           \/ /\ faults' = faults
              /\ runs' = [runs EXCEPT ![r] =
                    IF IsDuplicate(run.mapped, deliveries)
                    THEN [run EXCEPT !.pc = "conflict", !.reason = "duplicate_voucher"]
                    ELSE [run EXCEPT !.pc = "insert"]]
        /\ UNCHANGED <<deliveries, batches, conflicts, auditLogs, rc, others>>

\* the voucher as the column stores it
StoredVoucher(data) ==
    LET v == Field(data, "company_voucher_no")
    IN  IF v = Undefined THEN Null ELSE v

\* insertDelivery; discount takes the column default 0
InsertDelivery(r) ==
    LET run == runs[r]
    IN  /\ run.pc = "insert"
        /\ \/ /\ CanFail
              /\ faults' = faults + 1
              /\ runs' = [runs EXCEPT ![r] = ToCatch(run, DbError)]
              /\ UNCHANGED deliveries
           \/ /\ faults' = faults
              /\ deliveries' = Append(deliveries,
                    DeliveryRow(StoredVoucher(run.mapped), RowIndex(run), run.batchId,
                                Null, Null, Null, Num(0), Null))
              /\ runs' = [runs EXCEPT ![r].pc = "rc_read",
                                      ![r].deliveryId = Len(deliveries) + 1]
        /\ UNCHANGED <<batches, conflicts, auditLogs, rc, others>>

\* recomputeDependentFields(deliveryId): the read and calculateFields
ImportRecomputeRead(r) ==
    LET run == runs[r]
    IN  /\ run.pc = "rc_read"
        /\ \/ /\ CanFail
              /\ faults' = faults + 1
              /\ runs' = [runs EXCEPT ![r] = ToCatch(run, DbError)]
           \/ /\ faults' = faults
              /\ runs' = [runs EXCEPT ![r] =
                    IF run.deliveryId \in DOMAIN deliveries
                    THEN [run EXCEPT !.pc = "rc_update",
                             !.fields = CalculateFields(deliveries[run.deliveryId])]
                    ELSE ToCatch(run, "Delivery not found")]
        /\ UNCHANGED <<deliveries, batches, conflicts, auditLogs, rc, others>>

\* recomputeDependentFields(deliveryId): the update
ImportRecomputeUpdate(r) ==
    LET run == runs[r]
    IN  /\ run.pc = "rc_update"
        /\ \/ /\ CanFail
              /\ faults' = faults + 1
              /\ runs' = [runs EXCEPT ![r] = ToCatch(run, DbError)]
              /\ UNCHANGED deliveries
           \/ /\ faults' = faults
              /\ deliveries' = [deliveries EXCEPT
                                   ![run.deliveryId] = MergeFields(@, run.fields)]
              /\ runs' = [runs EXCEPT ![r].pc = "rc_audit"]
        /\ UNCHANGED <<batches, conflicts, auditLogs, rc, others>>

\* recomputeDependentFields(deliveryId): the audit log entry; then
\* results.imported++
ImportRecomputeAudit(r) ==
    LET run == runs[r]
    IN  /\ run.pc = "rc_audit"
        /\ \/ /\ CanFail
              /\ faults' = faults + 1
              /\ runs' = [runs EXCEPT ![r] = ToCatch(run, DbError)]
              /\ UNCHANGED auditLogs
           \/ /\ faults' = faults
              /\ auditLogs' = Append(auditLogs, run.deliveryId)
              /\ runs' = [runs EXCEPT ![r] =
                    NextRowCounted([run EXCEPT !.results.imported = @ + 1])]
        /\ UNCHANGED <<deliveries, batches, conflicts, rc, others>>

\* the catch block: recordConflict(invalid_data), results.errors++
CatchRowError(r) ==
    LET run == runs[r]
    IN  /\ run.pc = "catch"
        /\ \/ /\ CanFail
              /\ faults' = faults + 1
              /\ runs' = [runs EXCEPT ![r] = Rethrow(run, DbError)]
              /\ UNCHANGED conflicts
           \/ /\ faults' = faults
              /\ conflicts' = Append(conflicts,
                    ConflictRow(run.batchId, RowIndex(run), "invalid_data",
                                run.error, <<"row_data", run.sheet[run.i]>>))
              /\ runs' = [runs EXCEPT ![r] =
                    NextRowCounted([run EXCEPT !.results.errors = @ + 1])]
        /\ UNCHANGED <<deliveries, batches, auditLogs, rc, others>>

\* updateImportBatch(batchId, 'completed', results) and the return
UpdateImportBatch(r) ==
    LET run == runs[r]
    IN  /\ run.pc = "finish"
        /\ \/ /\ CanFail
              /\ faults' = faults + 1
              /\ runs' = [runs EXCEPT ![r] = Rethrow(run, DbError)]
              /\ UNCHANGED batches
           \/ /\ faults' = faults
              /\ batches' = [batches EXCEPT ![run.batchId] =
                    [@ EXCEPT !.status = "completed",
                              !.total_rows = Num(run.results.total),
                              !.imported_rows = Num(run.results.imported),
                              !.conflict_rows = Num(run.results.conflicts),
                              !.statusWrites = @ + 1]]
              /\ runs' = [runs EXCEPT ![r].pc = "done"]
        /\ UNCHANGED <<deliveries, conflicts, auditLogs, rc, others>>

\* the sheets: up to MaxRows data rows
Sheets == UNION {[1..n -> DataRows] : n \in 0..MaxRows}

-----------------------------------------------------------------------------
(* What the modules export to one another *)

\* the members of the object services/excelImportService.js exports
\* (module.exports = new ExcelImportService()): the two fields the
\* constructor sets and the methods of the class.  The module-level
\* bindings db and recomputeService are not among them
ExcelImportServiceMembers ==
    {"storage", "upload", "setupStorage", "getUploadMiddleware", "analyzeFile",
     "analyzeSheet", "suggestFieldMapping", "normalizeValue", "isDate",
     "normalizeDate", "isNumeric", "normalizeNumber", "normalizeText",
     "importData", "processDataRows", "mapRowData", "applyTransform",
     "validateRequiredFields", "isDuplicate", "insertDelivery", "recordConflict",
     "createImportBatch", "updateImportBatch"}

\* the export of services/excelImportService.js is an instance, so
\* `new ExcelImportService()` in another module throws a TypeError
ExcelImportServiceIsConstructor == FALSE

\* the export of services/recomputeService.js is an instance as well
\* (module.exports = new RecomputeService())
RecomputeServiceIsConstructor == FALSE

\* the export of server/database.js is the knex instance (module.exports =
\* db): the members this code base uses of it.  There is no getDb
DatabaseMembers == {"raw", "destroy"}

-----------------------------------------------------------------------------
(* QueueService: the three queues and their workers *)

\* addImportJob: attempts: options.attempts || 3
ImportAttempts == 3

\* addRecomputeJob: attempts: options.attempts || 2
RecomputeAttempts == 2

\* addReportJob: attempts: options.attempts || 2
ReportAttempts == 2

\* addImportJob: backoff {type: 'exponential', delay: 2000}
ImportBackoffDelay == 2000

\* addRecomputeJob: backoff {type: 'exponential', delay: 1000}
RecomputeBackoffDelay == 1000

\* addReportJob gives no backoff option: a failed attempt is retried at once
ReportBackoffDelay == 0

\* jobs a behaviour of the whole system may add
MaxJobs == 1

\* batch ids a caller of addImportJob may pass; 0 is no batch id
JobBatchIds == 0..1

\* options.attempts a caller may pass; 0 is none given
AttemptOptions == 0..2

\* reportType of a report job: one the worker's switch knows, one it does not
ReportTypes == {"deliveries_summary", "other"}

\* initialize()
Initialize ==
    /\ isInitialized' = TRUE
    /\ service' = [redis |-> "open", queues |-> "open", workers |-> "open",
                   schedulers |-> "open", cleanup |-> "none"]
    /\ UNCHANGED <<deliveries, batches, conflicts, auditLogs, rc, runs, faults,
                   jobs, response, calc, range, deletion, cancel>>

\* close() of a worker, queue or scheduler: closing one that is closed
\* already returns the same promise
Closed(handle) == IF handle = "none" THEN "none" ELSE "closed"

\* cleanup(): the workers, queues and schedulers are closed, then
\* redis.quit() is sent when this.redis is set (cleanup never resets the
\* field): a quit on a connection that has ended is rejected ('Connection
\* is closed.'), the catch block logs and rethrows and isInitialized is
\* not assigned
Cleanup ==
    LET closed == [service EXCEPT !.workers = Closed(@), !.queues = Closed(@),
                                  !.schedulers = Closed(@)]
    IN  /\ IF service.redis = "closed"
           THEN /\ service' = [closed EXCEPT !.cleanup = "threw"]
                /\ UNCHANGED isInitialized
           ELSE /\ service' = [closed EXCEPT
                                  !.redis = IF @ = "null" THEN "null" ELSE "closed",
                                  !.cleanup = "ok"]
                /\ isInitialized' = FALSE
        /\ UNCHANGED <<deliveries, batches, conflicts, auditLogs, rc, runs, faults,
                       jobs, response, calc, range, deletion, cancel>>

\* queue.add(name, data, {attempts, backoff}): the job as the queue holds
\* it; retryDelay is the delay the queue gave its latest retry
NewJob(kind, batchId, reportType, attempts, backoff) ==
    [kind |-> kind, batchId |-> batchId, reportType |-> reportType,
     attempts |-> attempts, backoff |-> backoff, attemptsMade |-> 0,
     state |-> "waiting", failedReason |-> "", retryDelay |-> 0]

\* options.attempts || ceiling
AttemptsOr(optAttempts, ceiling) ==
    IF optAttempts # 0 THEN optAttempts ELSE ceiling

\* addImportJob(filePath, mapping, userId, batchId, options)
AddImportJob(batchId, optAttempts) ==
    /\ isInitialized
    /\ jobs' = Append(jobs,
          NewJob("import", batchId, "", AttemptsOr(optAttempts, ImportAttempts),
                 ImportBackoffDelay))
    /\ UNCHANGED <<deliveries, batches, conflicts, auditLogs, rc, runs, faults,
                   isInitialized, response, calc, range,
                   service, deletion, cancel>>

\* addRecomputeJob(type, params, options)
AddRecomputeJob(optAttempts) ==
    /\ isInitialized
    /\ jobs' = Append(jobs,
          NewJob("recompute", 0, "", AttemptsOr(optAttempts, RecomputeAttempts),
                 RecomputeBackoffDelay))
    /\ UNCHANGED <<deliveries, batches, conflicts, auditLogs, rc, runs, faults,
                   isInitialized, response, calc, range,
                   service, deletion, cancel>>

\* addReportJob(reportType, filters, format, userId, options)
AddReportJob(reportType, optAttempts) ==
    /\ isInitialized
    /\ jobs' = Append(jobs,
          NewJob("report", 0, reportType, AttemptsOr(optAttempts, ReportAttempts),
                 ReportBackoffDelay))
    /\ UNCHANGED <<deliveries, batches, conflicts, auditLogs, rc, runs, faults,
                   isInitialized, response, calc, range,
                   service, deletion, cancel>>

\* the queue's handling of an attempt whose processor threw: below the
\* attempt ceiling the job is retried, after backoff * 2^(attemptsMade - 1)
\* when a backoff is set and at once when none is; at the ceiling it fails
FailAttempt(job, msg) ==
    LET made == job.attemptsMade + 1
    IN  [job EXCEPT
            !.attemptsMade = made,
            !.failedReason = msg,
            !.retryDelay = IF made < job.attempts
                           THEN job.backoff * 2^(made - 1) ELSE @,
            !.state = IF made >= job.attempts THEN "failed"
                      ELSE IF job.backoff > 0 THEN "delayed" ELSE "waiting"]

\* an updateImportBatchStatus whose update reaches import_batches
UpdateImportBatchStatusWritten(rows, batchId, status, message) ==
    IF batchId \in DOMAIN rows
    THEN [rows EXCEPT ![batchId] =
            [@ EXCEPT !.status = status, !.error_message = Str(message),
                      !.statusWrites = @ + 1]]
    ELSE rows

\* updateImportBatchStatus(batchId, status, details): the rows of
\* import_batches afterwards.  require('../database').getDb() throws a
\* TypeError inside the try block; the catch block logs it and returns
UpdateImportBatchStatus(rows, batchId, status, message) ==
    IF "getDb" \in DatabaseMembers /\ batchId \in DOMAIN rows
    THEN [rows EXCEPT ![batchId] =
            [@ EXCEPT !.status = status, !.error_message = Str(message),
                      !.statusWrites = @ + 1]]
    ELSE rows

\* one attempt of the import worker on a waiting job.  The processor throws
\* at `new ExcelImportService()`, before its first await; its catch block
\* calls updateImportBatchStatus when the job carries a batch id and
\* rethrows; the queue then retries the job after a delay or, at the
\* attempt ceiling, fails it
ImportWorkerAttempt(j) ==
    LET job  == jobs[j]
        msg  == "ExcelImportService is not a constructor"
    IN  /\ job.kind = "import"
        /\ job.state = "waiting"
        /\ service.workers = "open"
        /\ ~ExcelImportServiceIsConstructor
        /\ batches' = IF job.batchId # 0
                      THEN UpdateImportBatchStatus(batches, job.batchId, "failed", msg)
                      ELSE batches
        /\ jobs' = [jobs EXCEPT ![j] = FailAttempt(job, msg)]
        /\ UNCHANGED <<deliveries, conflicts, auditLogs, rc, runs, faults,
                       isInitialized, response, calc, range,
                   service, deletion, cancel>>

\* one attempt of the recompute worker on a waiting job: the processor
\* throws at `new RecomputeService()` and its catch block rethrows
RecomputeWorkerAttempt(j) ==
    /\ jobs[j].kind = "recompute"
    /\ jobs[j].state = "waiting"
    /\ service.workers = "open"
    /\ ~RecomputeServiceIsConstructor
    /\ jobs' = [jobs EXCEPT ![j] =
                  FailAttempt(@, "RecomputeService is not a constructor")]
    /\ UNCHANGED <<deliveries, batches, conflicts, auditLogs, rc, runs, faults,
                   isInitialized, response, calc, range,
                   service, deletion, cancel>>

\* one attempt of the report worker on a waiting job: a report type of the
\* switch is generated and the job completes, any other throws
ReportWorkerAttempt(j) ==
    /\ jobs[j].kind = "report"
    /\ jobs[j].state = "waiting"
    /\ service.workers = "open"
    /\ jobs' = [jobs EXCEPT ![j] =
                  IF @.reportType = "deliveries_summary"
                  THEN [@ EXCEPT !.state = "completed"]
                  ELSE FailAttempt(@, "Unknown report type")]
    /\ UNCHANGED <<deliveries, batches, conflicts, auditLogs, rc, runs, faults,
                   isInitialized, response, calc, range,
                   service, deletion, cancel>>

\* the backoff delay of a failed attempt has passed
RetryDelayElapsed(j) ==
    /\ jobs[j].state = "delayed"
    /\ jobs' = [jobs EXCEPT ![j].state = "waiting"]
    /\ UNCHANGED <<deliveries, batches, conflicts, auditLogs, rc, runs, faults,
                   isInitialized, response, calc, range,
                   service, deletion, cancel>>

-----------------------------------------------------------------------------
(* routes/import.js: PUT /conflicts/:id/resolve *)

\* the body's action: the handler tells import from any other
Actions == {"import", "skip"}

\* req.user.id of the resolve requests
RequestUser == "accountant2"

\* who resolved the conflict an earlier import left resolved
EarlierUser == "accountant1"

\* the handler with excelImportService.db and .recomputeService in place:
\* the store and the answer it leaves.  It is written as one step.
ResolveWithStore(id, action, withData, user) ==
    IF id \notin DOMAIN conflicts
    THEN [conflicts |-> conflicts, deliveries |-> deliveries,
          auditLogs |-> auditLogs,
          response |-> [status |-> 404, error |-> "Conflict not found", id |-> id]]
    ELSE LET inserts == action = "import" /\ withData
             row == DeliveryRow(Str("V1"), conflicts[id].delivery_row, 0,
                                Null, Null, Null, Num(0), Null)
         IN  [conflicts |-> [conflicts EXCEPT ![id] =
                                [@ EXCEPT !.status = "resolved",
                                          !.resolved_by = user,
                                          !.resolved_at = @ + 1]],
              deliveries |-> IF inserts
                             THEN Append(deliveries,
                                         MergeFields(row, CalculateFields(row)))
                             ELSE deliveries,
              auditLogs |-> IF inserts
                            THEN Append(auditLogs, Len(deliveries) + 1)
                            ELSE auditLogs,
              response |-> [status |-> 200, error |-> "", id |-> id]]

\* PUT /conflicts/:id/resolve with body {action, resolution_data}.  The
\* first statement of the try block calls excelImportService.db(...): db is
\* not a member of the service object, the call throws a TypeError and the
\* catch block answers 500
Resolve(id, action, withData, user) ==
    LET out == IF "db" \in ExcelImportServiceMembers
               THEN ResolveWithStore(id, action, withData, user)
               ELSE [conflicts |-> conflicts, deliveries |-> deliveries,
                     auditLogs |-> auditLogs,
                     response |-> [status |-> 500, error |-> "Internal server error",
                                   id |-> id]]
    IN  /\ conflicts' = out.conflicts
        /\ deliveries' = out.deliveries
        /\ auditLogs' = out.auditLogs
        /\ response' = out.response
        /\ UNCHANGED <<batches, rc, runs, faults, isInitialized, jobs, calc, range,
                   service, deletion, cancel>>

-----------------------------------------------------------------------------
(* Recomputation of stored records: any record the schema admits *)

Volumes    == {Null, Num(0), Num(3333), Num(10000)}
UnitPrices == {Null, Num(0), Num(2222), Num(5500)}
Grosses    == {Null, Num(0), Num(10000), Num(55000)}
Discounts  == {Null, Num(0), Num(1111), Num(2000)}
Nets       == {Null, Num(0), Num(5000), Num(53000)}

StoredDeliveries ==
    {DeliveryRow(Null, 0, 0, v, p, g, d, n) :
        v \in Volumes, p \in UnitPrices, g \in Grosses, d \in Discounts, n \in Nets}

InitCalc ==
    /\ deliveries \in {<<row>> : row \in StoredDeliveries}
    /\ batches = << >>
    /\ conflicts = << >>
    /\ auditLogs = << >>
    /\ rc = RcIdle
    /\ runs = << >>
    /\ faults \in {0, MaxFaults}
    /\ isInitialized = FALSE
    /\ jobs = << >>
    /\ response = NoResponse
    /\ calc = NoCalc
    /\ range = NoRange
    /\ service = ServiceNew
    /\ deletion = NoDeletion
    /\ cancel = NoCancel

NextCalc ==
    \/ \E id \in 1..2 : StartRecompute(id)
    \/ RecomputeRead
    \/ RecomputeUpdate
    \/ RecomputeAudit

SpecCalc == InitCalc /\ [][NextCalc]_vars

-----------------------------------------------------------------------------
(* C1 *)

\* the stored record satisfies net_value = round(gross_value - discount, 2)
\* whenever the three are non-null
NetConsistent(row) ==
    (row.gross_value # Null /\ row.discount # Null /\ row.net_value # Null)
        => row.net_value = SubToFixed2(row.gross_value, row.discount)

\* C1: after recomputeDependentFields has run on a stored delivery record,
\* if its gross_value, discount and net_value are all non-null then
\* net_value = round(gross_value - discount, 2).
C1_NetValueInvariant ==
    rc.pc = "done" => NetConsistent(deliveries[rc.id])

-----------------------------------------------------------------------------
(* One call of importData over any sheet, on a store that may already hold *)
(* a delivery with voucher V1, with storage failures                       *)

\* what XLSX.readFile is given: a readable workbook with the sheet, or a
\* file it cannot read
Workbooks ==
    {[sheet |-> sh, readable |-> TRUE] : sh \in Sheets}
        \cup {[sheet |-> << >>, readable |-> FALSE]}

InitImport ==
    /\ deliveries \in {<< >>,
          <<DeliveryRow(Str("V1"), 2, 0, Null, Null, Null, Num(0), Null)>>}
    /\ batches = << >>
    /\ conflicts = << >>
    /\ auditLogs = << >>
    /\ rc = RcIdle
    /\ runs = << >>
    /\ faults = 0
    /\ isInitialized = FALSE
    /\ jobs = << >>
    /\ response = NoResponse
    /\ calc = NoCalc
    /\ range = NoRange
    /\ service = ServiceNew
    /\ deletion = NoDeletion
    /\ cancel = NoCancel

NextImport ==
    \/ /\ runs = << >>
       /\ \E wb \in Workbooks, withTransform \in BOOLEAN,
             headerRowIndex \in 1..MaxHeaderRow :
               StartImport(wb.sheet, withTransform, headerRowIndex, wb.readable)
    \/ \E r \in DOMAIN runs : CreateImportBatch(r)
    \/ \E r \in DOMAIN runs : ReadWorkbook(r)
    \/ \E r \in DOMAIN runs : BeginRow(r)
    \/ \E r \in DOMAIN runs : RecordRowConflict(r)
    \/ \E r \in DOMAIN runs : CheckDuplicate(r)
    \/ \E r \in DOMAIN runs : InsertDelivery(r)
    \/ \E r \in DOMAIN runs : ImportRecomputeRead(r)
    \/ \E r \in DOMAIN runs : ImportRecomputeUpdate(r)
    \/ \E r \in DOMAIN runs : ImportRecomputeAudit(r)
    \/ \E r \in DOMAIN runs : CatchRowError(r)
    \/ \E r \in DOMAIN runs : UpdateImportBatch(r)

SpecImport == InitImport /\ [][NextImport]_vars

-----------------------------------------------------------------------------
(* The system: one import, the import queue and conflict resolution, on a  *)
(* store that may hold a conflict of an earlier import                     *)

\* the store the server starts on is what earlier runs left in the
\* database: here nothing, or one completed batch with one conflict in any
\* status of the schema
EarlierBatch ==
    [status |-> "completed", total_rows |-> Num(0), imported_rows |-> Num(0),
     conflict_rows |-> Num(1), error_message |-> Null, statusWrites |-> 1]

EarlierConflict(status) ==
    [ConflictRow(1, 2, "duplicate_voucher", "Duplicate voucher number",
                 <<"mapped", [company_voucher_no |-> Str("V1")]>>)
        EXCEPT !.status = status,
               !.resolved_by = IF status = "pending" THEN NoUser ELSE EarlierUser,
               !.resolved_at = IF status = "pending" THEN 0 ELSE 1]

\* the workbooks of this specification: at most one data row
SmallWorkbooks ==
    {wb \in Workbooks : Len(wb.sheet) <= 1}

Init ==
    /\ deliveries = << >>
    /\ \/ /\ batches = << >>
          /\ conflicts = << >>
       \/ /\ batches = <<EarlierBatch>>
          /\ conflicts \in {<<EarlierConflict(st)>> :
                                st \in {"pending", "resolved", "ignored"}}
    /\ auditLogs = << >>
    /\ rc = RcIdle
    /\ runs = << >>
    /\ faults = 0
    /\ isInitialized = FALSE
    /\ jobs = << >>
    /\ response = NoResponse
    /\ calc = NoCalc
    /\ range = NoRange
    /\ service = ServiceNew
    /\ deletion = NoDeletion
    /\ cancel = NoCancel

Next ==
    \/ /\ runs = << >>
       /\ \E wb \in SmallWorkbooks, withTransform \in BOOLEAN :
               StartImport(wb.sheet, withTransform, 1, wb.readable)
    \/ \E r \in DOMAIN runs : CreateImportBatch(r)
    \/ \E r \in DOMAIN runs : ReadWorkbook(r)
    \/ \E r \in DOMAIN runs : BeginRow(r)
    \/ \E r \in DOMAIN runs : RecordRowConflict(r)
    \/ \E r \in DOMAIN runs : CheckDuplicate(r)
    \/ \E r \in DOMAIN runs : InsertDelivery(r)
    \/ \E r \in DOMAIN runs : ImportRecomputeRead(r)
    \/ \E r \in DOMAIN runs : ImportRecomputeUpdate(r)
    \/ \E r \in DOMAIN runs : ImportRecomputeAudit(r)
    \/ \E r \in DOMAIN runs : CatchRowError(r)
    \/ \E r \in DOMAIN runs : UpdateImportBatch(r)
    \/ Initialize
    \/ /\ Len(jobs) < MaxJobs
       /\ \E b \in JobBatchIds : AddImportJob(b, 0)
    \/ \E j \in DOMAIN jobs : ImportWorkerAttempt(j)
    \/ \E j \in DOMAIN jobs : RetryDelayElapsed(j)
    \/ \E id \in 1..(Len(conflicts) + 1), action \in Actions,
          withData \in BOOLEAN :
            Resolve(id, action, withData, RequestUser)

Spec == Init /\ [][Next]_vars

-----------------------------------------------------------------------------
(* Rows of a sheet and what the store holds for them *)

\* the 1-based sheet row of the k-th data row: the header is sheet row
\* mapping.headerRowIndex
SheetRow(run, k) == run.mapping.headerRowIndex + k

\* the data rows the loop is through with
HandledRows(run) == 1..(run.i - 1)

DeliveriesOfRow(run, k) ==
    {d \in DOMAIN deliveries :
        /\ deliveries[d].batch = run.batchId
        /\ deliveries[d].original_row_index = SheetRow(run, k)}

ConflictsOfRow(run, k) ==
    {c \in DOMAIN conflicts :
        /\ conflicts[c].batch_id = run.batchId
        /\ conflicts[c].delivery_row = SheetRow(run, k)}

\* the date cell of the row is a date
HasValidDate(run, k) == IsValidDate(run.sheet[k][1])

\* the voucher of the row was in the store when the row was processed: on
\* a delivery of another origin or of an earlier row of the sheet
VoucherAlreadyStored(run, k) ==
    /\ run.sheet[k][2] # Undefined
    /\ \E d \in DOMAIN deliveries :
          /\ deliveries[d].company_voucher_no = run.sheet[k][2]
          /\ \/ deliveries[d].batch # run.batchId
             \/ deliveries[d].original_row_index < SheetRow(run, k)

\* importData returned and no storage call failed
CleanlyDone(run) == run.pc = "done" /\ faults = 0

-----------------------------------------------------------------------------
(* C2 .. C8: importData *)

\* C2: for every data row the import processor has handled, exactly one
\* outcome is persisted: one delivery record of that row or one
\* ImportConflict of that row, never both and never neither, whichever step
\* of the row failed.
C2_OneOutcomePerRow ==
    \A r \in DOMAIN runs : \A k \in HandledRows(runs[r]) :
        Cardinality(DeliveriesOfRow(runs[r], k))
            + Cardinality(ConflictsOfRow(runs[r], k)) = 1

\* C3: when processDataRows has finished over a sheet, total is the number
\* of data rows and total = imported + conflicts + errors.
C3_TotalCountsEveryRow ==
    \A r \in DOMAIN runs :
        runs[r].pc \in {"finish", "done"} =>
            /\ runs[r].results.total = Len(runs[r].sheet)
            /\ runs[r].results.total =
                  runs[r].results.imported + runs[r].results.conflicts
                      + runs[r].results.errors

\* C4: a row whose non-empty voucher number is already in the delivery
\* store yields exactly one conflict, of reason duplicate_voucher and with
\* the row's 1-based sheet row index; no delivery is inserted for it;
\* imported excludes the row and total includes it.
C4_DuplicateVoucherRow ==
    \A r \in DOMAIN runs : \A k \in 1..Len(runs[r].sheet) :
        (CleanlyDone(runs[r]) /\ HasValidDate(runs[r], k)
            /\ VoucherAlreadyStored(runs[r], k)) =>
            /\ Cardinality(ConflictsOfRow(runs[r], k)) = 1
            /\ \A c \in ConflictsOfRow(runs[r], k) :
                  conflicts[c].reason = "duplicate_voucher"
            /\ DeliveriesOfRow(runs[r], k) = {}
            /\ runs[r].results.imported =
                  Cardinality({d \in DOMAIN deliveries :
                                  deliveries[d].batch = runs[r].batchId})
            /\ runs[r].results.total = Len(runs[r].sheet)

\* C5: a row whose required column is blank yields exactly one conflict, of
\* reason missing_required, and every later valid row is still imported.
C5_MissingRequiredRow ==
    \A r \in DOMAIN runs : \A k \in 1..Len(runs[r].sheet) :
        (CleanlyDone(runs[r]) /\ runs[r].sheet[k][1] = Undefined) =>
            /\ Cardinality(ConflictsOfRow(runs[r], k)) = 1
            /\ \A c \in ConflictsOfRow(runs[r], k) :
                  conflicts[c].reason = "missing_required"
            /\ \A l \in (k + 1)..Len(runs[r].sheet) :
                  (HasValidDate(runs[r], l) /\ ~VoucherAlreadyStored(runs[r], l))
                      => Cardinality(DeliveriesOfRow(runs[r], l)) = 1

\* C6: an import whose every data row became a conflict ends with its
\* ImportBatch completed, imported = 0 and conflicts = total.
C6_AllConflictsCompleted ==
    \A r \in DOMAIN runs :
        (/\ runs[r].pc = "done"
         /\ Len(runs[r].sheet) >= 1
         /\ runs[r].results.conflicts = Len(runs[r].sheet)) =>
            /\ batches[runs[r].batchId].status = "completed"
            /\ batches[runs[r].batchId].imported_rows = Num(0)
            /\ batches[runs[r].batchId].conflict_rows
                  = batches[runs[r].batchId].total_rows

\* the steps of one row inside the try block of the loop
RowSteps == {"row", "conflict", "dup", "insert", "rc_read", "rc_update", "rc_audit"}

\* the catch block recorded the row's error and the loop goes on
RowErrorRecorded(run, after) ==
    /\ conflicts' = Append(conflicts,
          [batch_id      |-> run.batchId,
           delivery_row  |-> SheetRow(run, run.i),
           reason        |-> "invalid_data",
           details       |-> run.error,
           original_data |-> <<"row_data", run.sheet[run.i]>>,
           status        |-> "pending",
           resolved_by   |-> NoUser,
           resolved_at   |-> 0])
    /\ after.results.errors = run.results.errors + 1
    /\ after.results.conflicts = run.results.conflicts
    /\ after.results.imported = run.results.imported
    /\ after.pc = "row"
    /\ after.i = run.i + 1
    /\ after.sheet = run.sheet

\* the insert of the invalid_data conflict was itself rejected by the store
RecordingRejected(run, after) ==
    /\ faults' = faults + 1
    /\ conflicts' = conflicts
    /\ after.pc = "threw"
    /\ after.error = DbError

C8_FailedBatchOnError ==
    \A r \in DOMAIN runs :
        (runs[r].pc = "threw" /\ runs[r].batchId # 0) =>
            /\ batches[runs[r].batchId].status = "failed"
            /\ batches[runs[r].batchId].error_message = Str(runs[r].error)

-----------------------------------------------------------------------------
(* C9, C10: the batch status and conflict resolution *)

TerminalStatuses == {"completed", "failed"}

C10_ResolveResolvedRejected ==
    [][\A id \in DOMAIN conflicts :
          (/\ conflicts[id].status = "resolved"
           /\ response' # response
           /\ response'.id = id) =>
              /\ response'.status = 404
              /\ conflicts' = conflicts
              /\ deliveries' = deliveries]_vars

-----------------------------------------------------------------------------
(* calculateFields on an object: a key may be absent, null or a number *)

PlainVolumes    == {Undefined, Null, Num(0), Num(10000), Num(3333)}
PlainUnitPrices == {Undefined, Null, Num(0), Num(5500), Num(2222)}
PlainGrosses    == {Undefined, Null, Num(0), Num(55000)}
PlainDiscounts  == {Undefined, Null, Num(0), Num(2000), Num(1111)}
PlainNets       == {Undefined, Null, Num(0), Num(53000)}

PlainDeliveries ==
    {DeliveryRow(Null, 0, 0, v, p, g, d, n) :
        v \in PlainVolumes, p \in PlainUnitPrices, g \in PlainGrosses,
        d \in PlainDiscounts, n \in PlainNets}

InitFields ==
    /\ deliveries = << >>
    /\ batches = << >>
    /\ conflicts = << >>
    /\ auditLogs = << >>
    /\ rc = RcIdle
    /\ runs = << >>
    /\ faults = 0
    /\ isInitialized = FALSE
    /\ jobs = << >>
    /\ response = NoResponse
    /\ calc \in {[NoCalc EXCEPT !.delivery = d] : d \in PlainDeliveries}
    /\ range = NoRange
    /\ service = ServiceNew
    /\ deletion = NoDeletion
    /\ cancel = NoCancel

NextFields == Calculate

SpecFields == InitFields /\ [][NextFields]_vars

\* the key holds a value: it is neither absent nor null
Present(x) == x \notin {Undefined, Null}

\* C19: for a record whose volume and unit_price are both present, zero
\* included, calculateFields returns gross_value = round(volume *
\* unit_price, 2) and, when discount is present too, net_value =
\* round(that gross_value - discount, 2); no later rule overrides them.
C19_GrossFromVolumeAndPrice ==
    (calc.called /\ Present(calc.delivery.volume)
        /\ Present(calc.delivery.unit_price)) =>
        /\ calc.fields.gross_value
              = MulToFixed2(calc.delivery.volume, calc.delivery.unit_price)
        /\ Present(calc.delivery.discount) =>
              calc.fields.net_value
                  = SubToFixed2(MulToFixed2(calc.delivery.volume,
                                            calc.delivery.unit_price),
                                calc.delivery.discount)

\* C20: for a record that gives only net_value and discount,
\* calculateFields returns gross_value = round(net_value + discount, 2) and
\* no net_value entry.
C20_GrossFromNetOnly ==
    (/\ calc.called
     /\ Present(calc.delivery.net_value)
     /\ Present(calc.delivery.discount)
     /\ ~Present(calc.delivery.volume)
     /\ ~Present(calc.delivery.unit_price)
     /\ ~Present(calc.delivery.gross_value)) =>
        /\ calc.fields.gross_value
              = AddToFixed2(calc.delivery.net_value, calc.delivery.discount)
        /\ calc.fields.net_value = Undefined

-----------------------------------------------------------------------------
(* C11 .. C13: the life of a conflict, and what resolve does *)

\* C11: a conflict is created by the import processor only, with status
\* pending; a status that has left pending never returns to pending; and
\* an existing conflict is changed by a resolve request only.
C11_ConflictLifecycle ==
    [][/\ Len(conflicts') >= Len(conflicts)
       /\ \A c \in DOMAIN conflicts :
             /\ conflicts[c].status # "pending" => conflicts'[c].status # "pending"
             /\ conflicts'[c] # conflicts[c] =>
                   (response' # response /\ response'.id = c)
       /\ \A c \in DOMAIN conflicts' \ DOMAIN conflicts :
             /\ conflicts'[c].status = "pending"
             /\ \E r \in DOMAIN runs :
                   /\ runs[r].pc \in {"conflict", "catch"}
                   /\ runs'[r] # runs[r]
                   /\ conflicts'[c].batch_id = runs[r].batchId]_vars

\* the import recorded a conflict, a resolve request for it was answered,
\* and an earlier conflict that had left pending is in the store as well
C11_Witness ==
    \E c \in DOMAIN conflicts : \E e \in DOMAIN conflicts : \E r \in DOMAIN runs :
        /\ conflicts[c].batch_id = runs[r].batchId
        /\ conflicts[c].status = "pending"
        /\ response.id = c
        /\ response.status # 0
        /\ conflicts[e].status \in {"resolved", "ignored"}

\* C12: a resolve request on a pending conflict sets its status to
\* resolved, with the resolver and the timestamp, whatever the action.
C12_ResolveMarksResolved ==
    [][\A id \in DOMAIN conflicts :
          (/\ conflicts[id].status = "pending"
           /\ response' # response
           /\ response'.id = id) =>
              /\ conflicts'[id].status = "resolved"
              /\ conflicts'[id].resolved_by = RequestUser
              /\ conflicts'[id].resolved_at # conflicts[id].resolved_at]_vars

\* C13: a resolve request with an action other than import leaves the
\* deliveries as they are; one with action import and resolution data
\* inserts exactly one delivery and recomputes its dependent fields.
C13_OnlyImportPersists ==
    [][\A id \in DOMAIN conflicts :
          /\ \A withData \in BOOLEAN :
                Resolve(id, "skip", withData, RequestUser) =>
                    (deliveries' = deliveries /\ auditLogs' = auditLogs)
          /\ Resolve(id, "import", TRUE, RequestUser) =>
                /\ Len(deliveries') = Len(deliveries) + 1
                /\ \A d \in DOMAIN deliveries : deliveries'[d] = deliveries[d]
                /\ auditLogs' = Append(auditLogs, Len(deliveries) + 1)]_vars

-----------------------------------------------------------------------------
(* C14: row order within one import *)

\* the rows of the run's batch in a table, in the order they were written
RowsWritten(table, rowOf, run) ==
    LET ids == {x \in DOMAIN table : rowOf[x].b = run.batchId}
    IN  \A x, y \in ids : x < y => rowOf[x].row < rowOf[y].row

\* rows k < l of the sheet carry the same voucher, both with a valid date,
\* and k is the first holder of that voucher
SameVoucherPair(run, k, l) ==
    /\ k < l
    /\ run.sheet[k][2] # Undefined
    /\ run.sheet[k][2] = run.sheet[l][2]
    /\ HasValidDate(run, k)
    /\ HasValidDate(run, l)
    /\ ~VoucherAlreadyStored(run, k)

\* C14: within one import the records and the conflicts are written in
\* sheet row order, no row is written before the rows above it are
\* finished, and of two rows with the same non-empty voucher the earlier
\* is imported and the later becomes a duplicate_voucher conflict.
C14_RowOrderAndInSheetDuplicate ==
    \A r \in DOMAIN runs :
        /\ RowsWritten(deliveries,
              [d \in DOMAIN deliveries |->
                  [b |-> deliveries[d].batch,
                   row |-> deliveries[d].original_row_index]], runs[r])
        /\ RowsWritten(conflicts,
              [c \in DOMAIN conflicts |->
                  [b |-> conflicts[c].batch_id,
                   row |-> conflicts[c].delivery_row]], runs[r])
        /\ \A k \in 1..Len(runs[r].sheet) :
              (DeliveriesOfRow(runs[r], k) # {} \/ ConflictsOfRow(runs[r], k) # {})
                  => k <= runs[r].i
        /\ \A k, l \in 1..Len(runs[r].sheet) :
              (CleanlyDone(runs[r]) /\ SameVoucherPair(runs[r], k, l)) =>
                  /\ Cardinality(DeliveriesOfRow(runs[r], k)) = 1
                  /\ ConflictsOfRow(runs[r], k) = {}
                  /\ DeliveriesOfRow(runs[r], l) = {}
                  /\ Cardinality(ConflictsOfRow(runs[r], l)) = 1
                  /\ \A c \in ConflictsOfRow(runs[r], l) :
                        conflicts[c].reason = "duplicate_voucher"

\* a finished import of a sheet whose two rows carry the same voucher: the
\* first was imported, the second recorded as duplicate
C14_Witness ==
    \E r \in DOMAIN runs : \E k, l \in 1..Len(runs[r].sheet) :
        /\ CleanlyDone(runs[r])
        /\ SameVoucherPair(runs[r], k, l)
        /\ DeliveriesOfRow(runs[r], k) # {}
        /\ \E c \in ConflictsOfRow(runs[r], l) :
              conflicts[c].reason = "duplicate_voucher"

-----------------------------------------------------------------------------
(* C15: the same import run again *)

EmptyStore ==
    /\ deliveries = << >>
    /\ batches = << >>
    /\ conflicts = << >>
    /\ auditLogs = << >>
    /\ rc = RcIdle
    /\ runs = << >>
    /\ faults = 0
    /\ isInitialized = FALSE
    /\ jobs = << >>
    /\ response = NoResponse
    /\ calc = NoCalc
    /\ range = NoRange
    /\ service = ServiceNew
    /\ deletion = NoDeletion
    /\ cancel = NoCancel

\* importData is called again with the file and the mapping of the call
\* that has finished
RerunImport ==
    /\ Len(runs) = 1
    /\ Finished(runs[1])
    /\ StartImport(runs[1].sheet, runs[1].mapping.columns[1].transform = "iso_date",
                   runs[1].mapping.headerRowIndex, runs[1].readable)

NextRerun ==
    \/ /\ runs = << >>
       /\ \E wb \in SmallWorkbooks, withTransform \in BOOLEAN :
               StartImport(wb.sheet, withTransform, 1, wb.readable)
    \/ RerunImport
    \/ \E r \in DOMAIN runs : CreateImportBatch(r)
    \/ \E r \in DOMAIN runs : ReadWorkbook(r)
    \/ \E r \in DOMAIN runs : BeginRow(r)
    \/ \E r \in DOMAIN runs : RecordRowConflict(r)
    \/ \E r \in DOMAIN runs : CheckDuplicate(r)
    \/ \E r \in DOMAIN runs : InsertDelivery(r)
    \/ \E r \in DOMAIN runs : ImportRecomputeRead(r)
    \/ \E r \in DOMAIN runs : ImportRecomputeUpdate(r)
    \/ \E r \in DOMAIN runs : ImportRecomputeAudit(r)
    \/ \E r \in DOMAIN runs : CatchRowError(r)
    \/ \E r \in DOMAIN runs : UpdateImportBatch(r)

SpecRerun == EmptyStore /\ [][NextRerun]_vars

\* C15: however often the same import is run, the store holds at most one
\* delivery for each row of the sheet: a row inserted by an earlier run is
\* a duplicate for the later one.
C15_RerunInsertsNothingTwice ==
    \A r \in DOMAIN runs : \A k \in 1..Len(runs[r].sheet) :
        Cardinality({d \in DOMAIN deliveries :
            deliveries[d].original_row_index = SheetRow(runs[r], k)}) <= 1

-----------------------------------------------------------------------------
(* C16: two imports at the same time *)

\* concurrency of the import worker
ImportConcurrency == 2

NextConcurrent ==
    \/ /\ Len(runs) < ImportConcurrency
       /\ \E wb \in SmallWorkbooks, withTransform \in BOOLEAN :
               StartImport(wb.sheet, withTransform, 1, wb.readable)
    \/ \E r \in DOMAIN runs : CreateImportBatch(r)
    \/ \E r \in DOMAIN runs : ReadWorkbook(r)
    \/ \E r \in DOMAIN runs : BeginRow(r)
    \/ \E r \in DOMAIN runs : RecordRowConflict(r)
    \/ \E r \in DOMAIN runs : CheckDuplicate(r)
    \/ \E r \in DOMAIN runs : InsertDelivery(r)
    \/ \E r \in DOMAIN runs : ImportRecomputeRead(r)
    \/ \E r \in DOMAIN runs : ImportRecomputeUpdate(r)
    \/ \E r \in DOMAIN runs : ImportRecomputeAudit(r)
    \/ \E r \in DOMAIN runs : CatchRowError(r)
    \/ \E r \in DOMAIN runs : UpdateImportBatch(r)

SpecConcurrent == EmptyStore /\ [][NextConcurrent]_vars

\* C16: whatever the interleaving of two imports, no two delivery records
\* carry the same non-empty voucher number.
C16_OneDeliveryPerVoucher ==
    \A d, e \in DOMAIN deliveries :
        (d # e /\ deliveries[d].company_voucher_no # Null) =>
            deliveries[d].company_voucher_no # deliveries[e].company_voucher_no

-----------------------------------------------------------------------------
(* C17, C18: the queues on their own *)

\* jobs a behaviour of the queues may add
MaxQueueJobs == 2

InitQueue == EmptyStore

NextQueue ==
    \/ Initialize
    \/ /\ Len(jobs) < MaxQueueJobs
       /\ \E b \in JobBatchIds, o \in AttemptOptions : AddImportJob(b, o)
    \/ /\ Len(jobs) < MaxQueueJobs
       /\ \E o \in AttemptOptions : AddRecomputeJob(o)
    \/ /\ Len(jobs) < MaxQueueJobs
       /\ \E t \in ReportTypes, o \in AttemptOptions : AddReportJob(t, o)
    \/ \E j \in DOMAIN jobs : ImportWorkerAttempt(j)
    \/ \E j \in DOMAIN jobs : RecomputeWorkerAttempt(j)
    \/ \E j \in DOMAIN jobs : ReportWorkerAttempt(j)
    \/ \E j \in DOMAIN jobs : RetryDelayElapsed(j)
    \/ Cleanup

SpecQueue == InitQueue /\ [][NextQueue]_vars

\* C17: for every kind of job, an attempt that fails below the attempt
\* ceiling is followed by a retry after a delay that grows from retry to
\* retry (doubling); a job is never run more often than its ceiling; and a
\* failed job stays failed.
C17_RetryWithBackoff ==
    [][\A j \in DOMAIN jobs :
          /\ jobs'[j].attemptsMade <= jobs[j].attempts
          /\ jobs[j].state = "failed" => jobs'[j] = jobs[j]
          /\ (/\ jobs'[j].attemptsMade = jobs[j].attemptsMade + 1
              /\ jobs'[j].attemptsMade < jobs[j].attempts) =>
                /\ jobs'[j].state = "delayed"
                /\ jobs'[j].retryDelay > jobs[j].retryDelay
                /\ jobs[j].retryDelay > 0 =>
                      jobs'[j].retryDelay = 2 * jobs[j].retryDelay]_vars

\* C18: when an import job has used up its attempts, the job is failed and
\* the ImportBatch it carries, unless it had completed, is failed with the
\* message of the last error.
C18_ExhaustedJobFailsBatch ==
    \A j \in DOMAIN jobs :
        (/\ jobs[j].kind = "import"
         /\ jobs[j].attemptsMade = jobs[j].attempts
         /\ jobs[j].batchId \in DOMAIN batches
         /\ batches[jobs[j].batchId].status # "completed") =>
            /\ jobs[j].state = "failed"
            /\ batches[jobs[j].batchId].status = "failed"
            /\ batches[jobs[j].batchId].error_message = Str(jobs[j].failedReason)

-----------------------------------------------------------------------------
(* C21, C22: rounding, and a null input *)

\* {volume: 3.333, unit_price: 2.222, discount: 1.111}
RoundingExample ==
    DeliveryRow(Null, 0, 0, Num(3333), Num(2222), Undefined, Num(1111), Undefined)

C22_NullVolumeBlocksChain ==
    (/\ calc.called
     /\ calc.delivery.volume = Null
     /\ Present(calc.delivery.unit_price)
     /\ Present(calc.delivery.discount)
     /\ ~Present(calc.delivery.gross_value)
     /\ ~Present(calc.delivery.net_value)) =>
        /\ calc.fields.gross_value = Undefined
        /\ calc.fields.net_value = Undefined

-----------------------------------------------------------------------------
(* C29: recomputation run again *)

\* C29: for any stored delivery record, a recomputation that follows a
\* completed recomputation of the same record writes nothing new: the
\* stored gross_value and net_value stay as the first one left them.
C29_RecomputeIdempotent ==
    [][(/\ rc.pc = "update"
        /\ rc'.pc = "audit"
        /\ \E a \in DOMAIN auditLogs : auditLogs[a] = rc.id) =>
            deliveries' = deliveries]_vars

-----------------------------------------------------------------------------
(* routes/deliveries.js: DELETE /api/deliveries/:id *)

\* the columns the migration gives the table deliveries
DeliveriesColumns ==
    {"id", "date", "contractor_id", "supplier_id", "vehicle_no",
     "company_voucher_no", "volume", "unit", "unit_price", "gross_value",
     "discount", "net_value", "item_description", "source_sheet",
     "original_row_index", "created_by", "created_at", "updated_at"}

\* the handler: 404 when the row is absent; the update of deleted_at names
\* a column the table does not have, the store rejects the statement and
\* the catch block answers 500 before the audit_logs insert
DeleteDelivery(id) ==
    /\ IF id \notin DOMAIN deliveries
       THEN /\ deletion' = [deletion EXCEPT !.status = 404, !.id = id]
            /\ UNCHANGED auditLogs
       ELSE IF "deleted_at" \in DeliveriesColumns
       THEN /\ deletion' = [status |-> 200, id |-> id,
                            deleted |-> deletion.deleted \cup {id}]
            /\ auditLogs' = Append(auditLogs, id)
       ELSE /\ deletion' = [deletion EXCEPT !.status = 500, !.id = id]
            /\ UNCHANGED auditLogs
    /\ UNCHANGED <<deliveries, batches, conflicts, rc, runs, faults,
                   isInitialized, jobs, response, calc, range, service, cancel>>

\* the operations that touch the table deliveries: the import, the queue
\* and its retries, conflict resolution, recomputation, the DELETE route
NextStore ==
    \/ Next
    \/ \E id \in 1..(Len(deliveries) + 1) : DeleteDelivery(id)
    \/ \E id \in DOMAIN deliveries : StartRecompute(id)
    \/ RecomputeRead
    \/ RecomputeUpdate
    \/ RecomputeAudit

SpecStore == Init /\ [][NextStore]_vars

\* C24: no operation removes a delivery record, and a DELETE request for
\* an existing record sets its deletion timestamp and nothing else of the
\* table.
C24_DeleteSetsTimestampOnly ==
    [][/\ Len(deliveries') >= Len(deliveries)
       /\ \A id \in DOMAIN deliveries :
             (deletion' # deletion /\ deletion'.id = id) =>
                 /\ id \in deletion'.deleted
                 /\ deliveries' = deliveries]_vars

-----------------------------------------------------------------------------
(* C26, C30: the unreadable workbook, and the counters on the batch *)

\* C26: when the workbook is unreadable, importData reports one error
\* before any row is processed and leaves no ImportBatch, no delivery and
\* no conflict behind.
C26_UnreadableLeavesNothing ==
    \A r \in DOMAIN runs :
        (~runs[r].readable /\ Finished(runs[r])) =>
            /\ runs[r].pc = "threw"
            /\ runs[r].i = 1
            /\ batches = << >>
            /\ conflicts = << >>
            /\ \A d \in DOMAIN deliveries : deliveries[d].batch = 0

\* C30: when an import completes, conflict_rows on its ImportBatch is the
\* number of conflict records of the batch and imported_rows the number of
\* delivery records the batch inserted.
C30_BatchCountersMatchStore ==
    \A r \in DOMAIN runs :
        runs[r].pc = "done" =>
            /\ batches[runs[r].batchId].conflict_rows =
                  Num(Cardinality({c \in DOMAIN conflicts :
                                      conflicts[c].batch_id = runs[r].batchId}))
            /\ batches[runs[r].batchId].imported_rows =
                  Num(Cardinality({d \in DOMAIN deliveries :
                                      deliveries[d].batch = runs[r].batchId}))

-----------------------------------------------------------------------------
(* routes/queue.js: POST /jobs/:jobId/cancel, and the import it is aimed at *)

\* the request arrives while the row loop of the job's importData call is
\* running: job.remove() is refused for a job a worker holds and the route
\* answers 500.  processDataRows takes no job and reads no cancellation
\* state, so the call goes on
CancelJob(r) ==
    /\ cancel.run = 0
    /\ runs[r].pc \in {"row", "conflict", "dup", "insert", "rc_read",
                       "rc_update", "rc_audit", "catch"}
    /\ runs[r].i <= Len(runs[r].sheet)
    /\ cancel' = [run |-> r, row |-> runs[r].i, status |-> 500]
    /\ UNCHANGED <<deliveries, batches, conflicts, auditLogs, rc, runs, faults,
                   isInitialized, jobs, response, calc, range, service, deletion>>

NextCancel ==
    \/ NextImport
    \/ \E r \in DOMAIN runs : CancelJob(r)

SpecCancel == InitImport /\ [][NextCancel]_vars

\* C27: a cancel request made while row n is being processed takes effect
\* at the next row boundary: no row after n is processed.
C27_CancelStopsAtRowBoundary ==
    \A r \in DOMAIN runs :
        cancel.run = r =>
            /\ runs[r].i <= cancel.row + 1
            /\ (runs[r].i = cancel.row + 1) => runs[r].pc \in {"row", "finish", "done", "threw"}
            /\ \A k \in (cancel.row + 1)..Len(runs[r].sheet) :
                  DeliveriesOfRow(runs[r], k) = {} /\ ConflictsOfRow(runs[r], k) = {}

-----------------------------------------------------------------------------
(* C28: what the import worker leaves behind *)

\* the errors importData raises: a rejected database call, an unreadable
\* workbook
ProcessingErrors == {DbError, "File corrupted"}

\* C28: an attempt of an import job whose processing raised no error
\* completes the job and leaves the job's ImportBatch completed; the worker
\* sets a batch to failed only when processing raised an error.
C28_WorkerCompletesBatch ==
    \A j \in DOMAIN jobs :
        (/\ jobs[j].kind = "import"
         /\ jobs[j].attemptsMade > 0
         /\ jobs[j].failedReason \notin ProcessingErrors) =>
            /\ jobs[j].state = "completed"
            /\ jobs[j].batchId \in DOMAIN batches =>
                  batches[jobs[j].batchId].status = "completed"

-----------------------------------------------------------------------------
(* C23: recomputation of a range *)

RangeKinds == {"date_range", "supplier"}

\* the records of the table when the range is recomputed
RangeRecords ==
    {DeliveryRow(Null, 0, 0, Num(10000), Num(5500), Null, Num(2000), Null),
     DeliveryRow(Null, 0, 0, Null, Null, Num(55000), Num(2000), Num(53000)),
     DeliveryRow(Null, 0, 0, Null, Null, Null, Num(0), Null)}

\* the rows a filter can match, in id order
Selections(n) == {ids \in {<< >>} \cup {<<a>> : a \in 1..n}
                              \cup {<<a, b>> : a \in 1..n, b \in 1..n} :
                     \A j \in DOMAIN ids : \A k \in DOMAIN ids :
                        j < k => ids[j] < ids[k]}

InitRange ==
    /\ deliveries \in {<<a, b>> : a \in RangeRecords, b \in RangeRecords}
    /\ batches = << >>
    /\ conflicts = << >>
    /\ auditLogs = << >>
    /\ rc = RcIdle
    /\ runs = << >>
    /\ faults = 0
    /\ isInitialized = FALSE
    /\ jobs = << >>
    /\ response = NoResponse
    /\ calc = NoCalc
    /\ range = NoRange
    /\ service = ServiceNew
    /\ deletion = NoDeletion
    /\ cancel = NoCancel

NextRange ==
    \/ \E kind \in RangeKinds, ids \in Selections(Len(deliveries)) :
          StartRange(kind, ids)
    \/ RangeSelect
    \/ RangeRead
    \/ RangeUpdate
    \/ RangeAudit

SpecRange == InitRange /\ [][NextRange]_vars

\* the selected records whose recomputation went through to its end
Recomputed == {k \in DOMAIN range.ids :
                  \E a \in DOMAIN auditLogs : auditLogs[a] = range.ids[k]}

\* C23: the failure of one selected record is not propagated (the call
\* throws only when the selecting query itself fails), the loop visits
\* every selected record, each failure costs at most the record it hit,
\* and the count returned is the number of records recomputed to the end.
C23_RangeBestEffort ==
    /\ range.pc = "threw" => (range.k = 0 /\ auditLogs = << >>)
    /\ range.pc = "done" =>
          /\ range.k = Len(range.ids) + 1
          /\ range.updatedCount = Cardinality(Recomputed)
          /\ range.updatedCount = Len(auditLogs)
          /\ range.updatedCount >= Len(range.ids) - faults

\* the first selected record failed, the second was recomputed all the
\* same and the call returned 1
C23_Witness ==
    /\ range.pc = "done"
    /\ Len(range.ids) = 2
    /\ faults > 0
    /\ Recomputed = {2}
    /\ range.updatedCount = 1

-----------------------------------------------------------------------------
(* C25: the life of the queue service *)

\* C25: a job is added only while the service is initialized; a cleanup
\* that completed leaves every worker, queue, scheduler and the connection
\* closed and the service not initialized; and once a cleanup has
\* completed, a further cleanup completes without error and changes
\* nothing.
C25_ServiceLifecycle ==
    [][/\ Len(jobs') > Len(jobs) => isInitialized
       /\ (service'.cleanup = "ok" /\ service' # service) =>
             /\ ~isInitialized'
             /\ service'.workers # "open"
             /\ service'.queues # "open"
             /\ service'.schedulers # "open"
             /\ service'.redis # "open"
       /\ (service.cleanup = "ok" /\ ~isInitialized') =>
             service' = service]_vars

=============================================================================
